---- MODULE Spec2Model ----
(***************************************************************************)
(* Sitemap Scan (src/cli.js): findMainSitemap, parseSitemap, getLinks and  *)
(* cliMain as a state machine.  One invocation (of the command line or of  *)
(* the library entry point getLinks) runs against one web site.  Every     *)
(* await of the source is a step boundary; the parseSitemap recursion is   *)
(* an explicit stack of call frames.                                       *)
(*                                                                         *)
(* Strings of the source whose characters matter (the domain argument)     *)
(* are sequences of tokens, cut so that the prefix "http" is always a      *)
(* token of its own: "https://example.com" is <<"http","s","://",          *)
(* "example.com">>, "httpbin.org" is <<"http","bin.org">>.                 *)
(*                                                                         *)
(* The web site is the environment.  The answer to a HEAD is chosen when   *)
(* the response arrives.  The answer to a GET of a URL is chosen the first *)
(* time the URL is fetched and is the same ever after (site): the site is  *)
(* static during one invocation.                                           *)
(*                                                                         *)
(* Spec is the whole program, command line and library.  SpecLib is the    *)
(* library entry point alone, SpecFair one getLinks call under weak        *)
(* fairness of the program's steps, and SpecPair two parseSitemap calls    *)
(* made side by side by a caller of the exported function.                 *)
(***************************************************************************)
EXTENDS Integers, Sequences, FiniteSets, TLC

\* ------------------------------------------------------------------ bounds

\* Longest list of <sitemap> or <url> children in one document.
MaxEntries == 2

\* Deepest nesting of parseSitemap calls the model follows.
MaxDepth == 4

\* ------------------------------------------------------------- values

Null == "null"
NoArg == <<>>

\* A <sitemap> or <url> element as xml2js hands it over: every child element is
\* a key holding the list of its occurrences.  NoLoc is an entry that has no
\* <loc> child.
Entry(u) == [loc |-> <<u>>]
NoLoc == [lastmod |-> <<"2024-01-01">>]
NoResult == [url |-> Null, subSitemaps |-> <<>>, contentUrls |-> <<>>, gets |-> <<>>]

\* cli.js:25-31
sitemapPaths ==
    << "/sitemap.xml", "/sitemap_index.xml", "/wp-sitemap.xml",
       "/sitemap-index.xml", "/sitemap.xml.gz" >>

\* process.argv[2]: absent, a bare host, a bare host whose name begins with
\* "http".
Domains == { NoArg, <<"example.com">>, <<"http", "bin.org">> }

\* process.argv[3]: absent, the three modes, and a flag that is none of them.
Arguments == { Null, "--main", "--subs", "--urls", "--all" }

Hosts == { "example.com", "bin.org" }

\* The <loc> values an index may hold: one URL that is no candidate path and
\* the URL of the first candidate path.
Locs == { "https://example.com/sitemap-posts.xml", "https://example.com/sitemap.xml" }

\* The <loc> values a urlset may hold.
Pages == { "https://example.com/p1", "https://example.com/p2" }

RECURSIVE SeqsUpTo(_, _)
SeqsUpTo(S, n) ==
    IF n = 0 THEN { <<>> }
    ELSE LET shorter == SeqsUpTo(S, n - 1)
         IN  shorter \cup { Append(s, x) : s \in { t \in shorter : Len(t) = n - 1 }, x \in S }

\* The children lists a document may hold: up to MaxEntries entries with a
\* <loc> out of S; the last entry may be one without a <loc> child.
Bodies(S) ==
    LET E == { Entry(u) : u \in S }
    IN  SeqsUpTo(E, MaxEntries)
            \cup { Append(e, NoLoc) : e \in SeqsUpTo(E, MaxEntries - 1) }

\* What a GET of a sitemap URL can bring: a transport/HTTP error, a body that
\* is no XML, or an XML document with one root element.
Docs ==
    { [status |-> "neterr", root |-> "none", entries |-> <<>>],
      [status |-> "badxml", root |-> "none", entries |-> <<>>],
      [status |-> "ok", root |-> "html", entries |-> <<>>] }
    \cup { [status |-> "ok", root |-> "sitemapindex", entries |-> e] : e \in Bodies(Locs) }
    \cup { [status |-> "ok", root |-> "urlset", entries |-> e] : e \in Bodies(Pages) }

\* ------------------------------------------------------------- helpers

RECURSIVE Join(_)
Join(tokens) ==
    IF tokens = <<>> THEN "" ELSE Head(tokens) \o Join(Tail(tokens))

RECURSIVE Flatten(_)
Flatten(seqs) ==
    IF seqs = <<>> THEN <<>> ELSE Head(seqs) \o Flatten(Tail(seqs))

\* String.prototype.startsWith on a tokenised string, for a prefix that is
\* one token.
startsWith(s, prefix) == s # <<>> /\ s[1] = prefix

\* cli.js:20
baseUrl(domain) ==
    IF startsWith(domain, "http") THEN domain ELSE <<"http", "s", "://">> \o domain

\* new URL(u) accepts an absolute http(s) URL and throws a TypeError on
\* anything else.
ValidUrl(u) ==
    \/ Len(u) >= 3 /\ u[1] = "http" /\ u[2] = "://" /\ u[3] \in Hosts
    \/ Len(u) >= 4 /\ u[1] = "http" /\ u[2] = "s" /\ u[3] = "://" /\ u[4] \in Hosts

\* cli.js:21: new URL(baseUrl).origin, scheme and host without path or query.
URLOrigin(u) ==
    IF u[2] = "s" THEN Join(SubSeq(u, 1, 4)) ELSE Join(SubSeq(u, 1, 3))

\* cli.js:34
sitemapUrlAt(o, i) == o \o sitemapPaths[i]

\* ------------------------------------------------------------- state

VARIABLES
    entry,           \* "cli": node cli.js ...; "lib": a caller of getLinks;
                     \* "parseSitemap": a caller of the exported parseSitemap
    argv,            \* [domain, argument]
    pc,              \* position of cliMain / getLinks
    origin,          \* findMainSitemap: origin
    idx,             \* findMainSitemap: position of the for loop in sitemapPaths
    mainSitemapUrl,  \* what findMainSitemap returned
    stack,           \* parseSitemap call frames, innermost last
    retval,          \* what the outermost parseSitemap returned
    result,          \* what getLinks returned
    exitCode,        \* process exit status, -1 while running
    out,             \* console output, in order
    netLog,          \* every request issued, in order, with its outcome
    site,            \* the documents fetched so far, by URL
    walks            \* the parseSitemap calls a library caller has made side by side

vars == << entry, argv, pc, origin, idx, mainSitemapUrl, stack, retval, result,
           exitCode, out, netLog, site, walks >>

Init ==
    /\ entry \in { "cli", "lib" }
    /\ argv \in [ domain : Domains, argument : Arguments ]
    /\ entry = "lib" => argv.domain # NoArg /\ argv.argument = Null
    /\ pc = "start"
    /\ origin = Null
    /\ idx = 1
    /\ mainSitemapUrl = Null
    /\ stack = <<>>
    /\ retval = NoResult
    /\ result = <<>>
    /\ exitCode = -1
    /\ out = <<>>
    /\ netLog = <<>>
    /\ site = <<>>
    /\ walks = <<>>

\* ------------------------------------------------------------- findMainSitemap

\* cli.js:105-115: cliMain up to the call of findMainSitemap.
cliMain ==
    /\ entry = "cli" /\ pc = "start"
    /\ IF argv.domain = NoArg \/ argv.argument = Null
       THEN /\ out' = out \o << <<"usage">> >>
            /\ exitCode' = 1
            /\ pc' = "exited"
       ELSE /\ pc' = "find"
            /\ UNCHANGED << out, exitCode >>
    /\ UNCHANGED << entry, argv, walks, origin, idx, mainSitemapUrl, stack, retval, result,
                    netLog, site >>

\* cli.js:91-92: getLinks up to the call of findMainSitemap.
getLinks ==
    /\ entry = "lib" /\ pc = "start"
    /\ pc' = "find"
    /\ UNCHANGED << entry, argv, walks, origin, idx, mainSitemapUrl, stack, retval, result,
                    exitCode, out, netLog, site >>

\* cli.js:19-23: the origin of the domain.  new URL throws on a string that is
\* no absolute URL: the promise of findMainSitemap, and with it the caller's,
\* is rejected; cliMain().catch(console.error) prints it and the process ends
\* with status 0.
findMainSitemap ==
    /\ pc = "find"
    /\ IF ValidUrl(baseUrl(argv.domain))
       THEN /\ origin' = URLOrigin(baseUrl(argv.domain))
            /\ out' = out \o << <<"searching", origin'>> >>
            /\ pc' = "findLoop"
            /\ UNCHANGED exitCode
       ELSE /\ out' = IF entry = "cli" THEN out \o << <<"TypeError">> >> ELSE out
            /\ pc' = "rejected"
            /\ exitCode' = IF entry = "cli" THEN 0 ELSE exitCode
            /\ UNCHANGED origin
    /\ idx' = 1
    /\ UNCHANGED << entry, argv, walks, mainSitemapUrl, stack, retval, result, netLog, site >>

\* cli.js:33-36: the next candidate's HEAD request is issued.
HeadRequest ==
    /\ pc = "findLoop" /\ idx <= Len(sitemapPaths)
    /\ netLog' = Append(netLog, [method |-> "HEAD", url |-> sitemapUrlAt(origin, idx),
                                 outcome |-> "pending"])
    /\ pc' = "awaitHead"
    /\ UNCHANGED << entry, argv, walks, origin, idx, mainSitemapUrl, stack, retval, result,
                    exitCode, out, site >>

Settle(log, outcome) == [log EXCEPT ![Len(log)].outcome = outcome]

\* HeadSucceeds with the return statement lost: the URL is recorded and the
\* loop goes on.
HeadSucceedsNoReturn ==
    /\ pc = "awaitHead"
    /\ netLog' = Settle(netLog, "ok")
    /\ out' = out \o << <<"found", sitemapUrlAt(origin, idx)>> >>
    /\ mainSitemapUrl' = sitemapUrlAt(origin, idx)
    /\ idx' = idx + 1
    /\ pc' = "findLoop"
    /\ UNCHANGED << entry, argv, walks, origin, stack, retval, result, exitCode, site >>

\* cli.js:36-38: the HEAD succeeded; findMainSitemap returns the URL.
HeadSucceeds ==
    /\ pc = "awaitHead"
    /\ netLog' = Settle(netLog, "ok")
    /\ out' = out \o << <<"found", sitemapUrlAt(origin, idx)>> >>
    /\ mainSitemapUrl' = sitemapUrlAt(origin, idx)
    /\ pc' = "located"
    /\ UNCHANGED << entry, argv, walks, origin, idx, stack, retval, result, exitCode, site >>

\* HeadFails with one retry: a path whose first HEAD failed is asked again
\* before the loop moves on.
HeadFailsRetriesOnce ==
    /\ pc = "awaitHead"
    /\ netLog' = Settle(netLog, "fail")
    /\ idx' = IF \E k \in 1..(Len(netLog) - 1) : netLog[k].url = netLog[Len(netLog)].url
              THEN idx + 1
              ELSE idx
    /\ pc' = "findLoop"
    /\ UNCHANGED << entry, argv, walks, origin, mainSitemapUrl, stack, retval, result,
                    exitCode, out, site >>

\* cli.js:39-42: the HEAD failed; the loop goes on to the next path.
HeadFails ==
    /\ pc = "awaitHead"
    /\ netLog' = Settle(netLog, "fail")
    /\ idx' = idx + 1
    /\ pc' = "findLoop"
    /\ UNCHANGED << entry, argv, walks, origin, mainSitemapUrl, stack, retval, result,
                    exitCode, out, site >>

\* NotFound falling back on the first candidate instead of null.
NotFoundFallsBack ==
    /\ pc = "findLoop" /\ idx > Len(sitemapPaths)
    /\ out' = out \o << <<"notfound", Join(argv.domain)>> >>
    /\ mainSitemapUrl' = sitemapUrlAt(origin, 1)
    /\ pc' = "located"
    /\ UNCHANGED << entry, argv, walks, origin, idx, stack, retval, result, exitCode,
                    netLog, site >>

\* cli.js:44-45: every path failed.
NotFound ==
    /\ pc = "findLoop" /\ idx > Len(sitemapPaths)
    /\ out' = out \o << <<"notfound", Join(argv.domain)>> >>
    /\ mainSitemapUrl' = Null
    /\ pc' = "located"
    /\ UNCHANGED << entry, argv, walks, origin, idx, stack, retval, result, exitCode,
                    netLog, site >>

\* ------------------------------------------------------------- parseSitemap

\* xml2js's parseStringPromise on a well-formed body: an object with one key,
\* the root element; result.sitemapindex.sitemap and result.urlset.url are
\* the lists of children, undefined (here <<>>) when there is none.
xml2js(d) ==
    [ sitemapindex |-> IF d.root = "sitemapindex" THEN d.entries ELSE <<>>,
      urlset       |-> IF d.root = "urlset" THEN d.entries ELSE <<>> ]

\* cli.js:64 and 75: entries.map(entry => entry.loc[0]) throws a TypeError on
\* an entry without <loc>.
MapThrows(entries) == \E k \in 1..Len(entries) : "loc" \notin DOMAIN entries[k]

MapLoc0(entries) == [k \in 1..Len(entries) |-> entries[k].loc[1]]

\* A call frame of parseSitemap: its argument, its two accumulators, the
\* locations its loop runs over and the position of the loop, the await it is
\* suspended at, and (for the properties) the GETs issued by the call and the
\* calls nested in it.
NewFrame(url) ==
    [ url |-> url, subSitemaps |-> <<>>, contentUrls |-> <<>>,
      sitemapLocations |-> <<>>, i |-> 1, pc |-> "awaitGet", gets |-> <<url>> ]

GetRequest(url) == [method |-> "GET", url |-> url, outcome |-> "pending"]

Top == stack[Len(stack)]

\* The part of the state parseSitemap works on.
Machine == [stack |-> stack, out |-> out, netLog |-> netLog]

TopOf(m) == m.stack[Len(m.stack)]

WithTop(m, f) == [m EXCEPT !.stack[Len(m.stack)] = f]

\* cli.js:53-59: a call of parseSitemap runs up to its first await: the
\* progress line, the empty accumulators, the GET.
Call(m, url) ==
    [ stack  |-> Append(m.stack, NewFrame(url)),
      out    |-> Append(m.out, <<"parsing", url>>),
      netLog |-> Append(m.netLog, GetRequest(url)) ]

\* cli.js:78-82: the catch block falls through to the return of whatever the
\* accumulators hold.
Catch(f) == [f EXCEPT !.pc = "return"]

\* cli.js:78-80: an error raised in the try block of the innermost call.
Throw(m) ==
    [ WithTop(m, Catch(TopOf(m))) EXCEPT !.out = Append(m.out, <<"error", TopOf(m).url>>) ]

\* UrlsetStep collecting the URLs by unshift: they come out in reverse order.
UrlsetStepReversed(f, res) ==
    IF res.urlset # <<>>
    THEN [f EXCEPT !.contentUrls =
                       f.contentUrls \o [k \in 1..Len(res.urlset) |->
                           MapLoc0(res.urlset)[Len(res.urlset) + 1 - k]],
                   !.pc = "return"]
    ELSE [f EXCEPT !.pc = "return"]

\* cli.js:74-77, then the return statement.
UrlsetStep(f, res) ==
    IF res.urlset # <<>>
    THEN [f EXCEPT !.contentUrls = f.contentUrls \o MapLoc0(res.urlset),
                   !.pc = "return"]
    ELSE [f EXCEPT !.pc = "return"]

\* IndexStep recording the index's own locations only after the walk: none
\* is recorded up front.
IndexStepRecordsNothing(f, res) ==
    [f EXCEPT !.sitemapLocations = MapLoc0(res.sitemapindex),
              !.i = 1]

\* IndexStep walking each distinct location once: a location listed again is
\* recorded but not walked again.
IndexStepWalksDistinct(f, res) ==
    LET locs == MapLoc0(res.sitemapindex)
        first(k) == \A j \in 1..(k - 1) : locs[j] # locs[k]
        keep == { k \in 1..Len(locs) : first(k) }
        nth(n) == CHOOSE k \in keep : Cardinality({ j \in keep : j <= k }) = n
    IN  [f EXCEPT !.sitemapLocations = [n \in 1..Cardinality(keep) |-> locs[nth(n)]],
                  !.subSitemaps = f.subSitemaps \o locs,
                  !.i = 1]

\* cli.js:63-65: the index's locations are recorded before any is walked.
IndexStep(f, res) ==
    [f EXCEPT !.sitemapLocations = MapLoc0(res.sitemapindex),
              !.subSitemaps = f.subSitemaps \o MapLoc0(res.sitemapindex),
              !.i = 1]

\* Merge putting the nested call's content URLs in front of the caller's.
MergePrepends(f, nested) ==
    [f EXCEPT !.subSitemaps = f.subSitemaps \o nested.subSitemaps,
              !.contentUrls = nested.contentUrls \o f.contentUrls,
              !.gets = f.gets \o nested.gets,
              !.i = f.i + 1]

\* Merge with a seen-set: of what a nested call returned, only the URLs the
\* caller does not hold yet are appended.
MergeDedups(f, nested) ==
    LET newSub(u) == \A k \in 1..Len(f.subSitemaps) : f.subSitemaps[k] # u
        newUrl(u) == \A k \in 1..Len(f.contentUrls) : f.contentUrls[k] # u
    IN  [f EXCEPT !.subSitemaps = f.subSitemaps \o SelectSeq(nested.subSitemaps, newSub),
                  !.contentUrls = f.contentUrls \o SelectSeq(nested.contentUrls, newUrl),
                  !.gets = f.gets \o nested.gets,
                  !.i = f.i + 1]

\* cli.js:69-70: what a nested call returned is appended to the caller's lists.
Merge(f, nested) ==
    [f EXCEPT !.subSitemaps = f.subSitemaps \o nested.subSitemaps,
              !.contentUrls = f.contentUrls \o nested.contentUrls,
              !.gets = f.gets \o nested.gets,
              !.i = f.i + 1]

Returned(f) ==
    [url |-> f.url, subSitemaps |-> f.subSitemaps, contentUrls |-> f.contentUrls,
     gets |-> f.gets]

\* Resume with a visited guard: a location that is being walked already is
\* skipped.
RECURSIVE ResumeSkipsVisited(_)
ResumeSkipsVisited(m) ==
    LET f == TopOf(m)
        res == xml2js(site[f.url])
    IN  IF f.i <= Len(f.sitemapLocations)
        THEN IF \E k \in 1..Len(m.stack) : m.stack[k].url = f.sitemapLocations[f.i]
             THEN ResumeSkipsVisited(WithTop(m, [f EXCEPT !.i = f.i + 1]))
             ELSE Call(WithTop(m, [f EXCEPT !.pc = "awaitNested"]), f.sitemapLocations[f.i])
        ELSE IF res.urlset # <<>> /\ MapThrows(res.urlset)
        THEN Throw(m)
        ELSE WithTop(m, UrlsetStep(f, res))

\* Resume with a concurrent fan-out: entering the loop, the GETs of all the
\* locations go out at once (as a Promise.all over the locations would have
\* them); the results are still collected location after location.
ResumeFansOut(m) ==
    LET f == TopOf(m)
        res == xml2js(site[f.url])
        called == Call(WithTop(m, [f EXCEPT !.pc = "awaitNested"]), f.sitemapLocations[f.i])
    IN  IF f.i <= Len(f.sitemapLocations)
        THEN IF f.i = 1
             THEN [called EXCEPT !.netLog =
                      m.netLog \o [k \in 1..Len(f.sitemapLocations) |->
                                      GetRequest(f.sitemapLocations[Len(f.sitemapLocations) + 1 - k])]]
             ELSE [called EXCEPT !.netLog = m.netLog]
        ELSE IF res.urlset # <<>> /\ MapThrows(res.urlset)
        THEN Throw(m)
        ELSE WithTop(m, UrlsetStep(f, res))

\* Resume with the loop bound off by one: the last location is never walked.
ResumeOffByOne(m) ==
    LET f == TopOf(m)
        res == xml2js(site[f.url])
    IN  IF f.i < Len(f.sitemapLocations)
        THEN Call(WithTop(m, [f EXCEPT !.pc = "awaitNested"]), f.sitemapLocations[f.i])
        ELSE IF res.urlset # <<>> /\ MapThrows(res.urlset)
        THEN Throw(m)
        ELSE WithTop(m, UrlsetStep(f, res))

\* cli.js:67-82: the innermost call runs on from the head of its loop to its
\* next await, the call of parseSitemap on the next location, or, the loop
\* over, through the urlset check to its return statement.
Resume(m) ==
    LET f == TopOf(m)
        res == xml2js(site[f.url])
    IN  IF f.i <= Len(f.sitemapLocations)
        THEN Call(WithTop(m, [f EXCEPT !.pc = "awaitNested"]), f.sitemapLocations[f.i])
        ELSE IF res.urlset # <<>> /\ MapThrows(res.urlset)
        THEN Throw(m)
        ELSE WithTop(m, UrlsetStep(f, res))

\* Classify collecting an index's locations one by one instead of by map: the
\* entries that have a <loc> are recorded before the one without raises.
ClassifyRecordsBeforeThrow(m) ==
    LET f == TopOf(m)
        res == xml2js(site[f.url])
        hasLoc(e) == "loc" \in DOMAIN e
    IN  IF res.sitemapindex # <<>>
        THEN IF MapThrows(res.sitemapindex)
             THEN Throw(WithTop(m, [f EXCEPT !.subSitemaps =
                      f.subSitemaps \o MapLoc0(SelectSeq(res.sitemapindex, hasLoc))]))
             ELSE Resume(WithTop(m, IndexStep(f, res)))
        ELSE Resume(m)

\* cli.js:63-82: the classification of a parsed document.
Classify(m) ==
    LET f == TopOf(m)
        res == xml2js(site[f.url])
    IN  IF res.sitemapindex # <<>>
        THEN IF MapThrows(res.sitemapindex)
             THEN Throw(m)
             ELSE Resume(WithTop(m, IndexStep(f, res)))
        ELSE Resume(m)

\* The walk goes on in the machine m, which is no deeper than the model follows.
WalkTo(m) ==
    \E next \in { m } :
        /\ Len(next.stack) <= MaxDepth
        /\ stack' = next.stack
        /\ out' = next.out
        /\ netLog' = next.netLog

\* cliLocated without the check of lines 116-118: a null URL goes on like any
\* other.
cliLocatedNoCheck ==
    /\ entry = "cli" /\ pc = "located"
    /\ IF argv.argument = "--main"
       THEN /\ out' = out \o << <<"main", mainSitemapUrl>> >>
            /\ exitCode' = 0
            /\ pc' = "exited"
            /\ UNCHANGED << stack, netLog >>
       ELSE /\ WalkTo(Call(Machine, mainSitemapUrl))
            /\ pc' = "walk"
            /\ UNCHANGED exitCode
    /\ UNCHANGED << entry, argv, walks, origin, idx, mainSitemapUrl, retval, result, site >>

\* cliLocated with the call of parseSitemap ahead of the mode checks: the
\* sitemap is walked in the mode --main too.
cliLocatedWalksFirst ==
    /\ entry = "cli" /\ pc = "located"
    /\ IF mainSitemapUrl = Null
       THEN /\ exitCode' = 1
            /\ pc' = "exited"
            /\ UNCHANGED << out, stack, netLog >>
       ELSE /\ WalkTo(Call(Machine, mainSitemapUrl))
            /\ pc' = "walk"
            /\ UNCHANGED exitCode
    /\ UNCHANGED << entry, argv, walks, origin, idx, mainSitemapUrl, retval, result, site >>

\* cli.js:115-126: cliMain once findMainSitemap has returned.
cliLocated ==
    /\ entry = "cli" /\ pc = "located"
    /\ IF mainSitemapUrl = Null
       THEN /\ exitCode' = 1
            /\ pc' = "exited"
            /\ UNCHANGED << out, stack, netLog >>
       ELSE IF argv.argument = "--main"
       THEN /\ out' = out \o << <<"main", mainSitemapUrl>> >>
            /\ exitCode' = 0
            /\ pc' = "exited"
            /\ UNCHANGED << stack, netLog >>
       ELSE /\ WalkTo(Call(Machine, mainSitemapUrl))
            /\ pc' = "walk"
            /\ UNCHANGED exitCode
    /\ UNCHANGED << entry, argv, walks, origin, idx, mainSitemapUrl, retval, result, site >>

\* cli.js:92-96: getLinks once findMainSitemap has returned.
getLinksLocated ==
    /\ entry = "lib" /\ pc = "located"
    /\ IF mainSitemapUrl = Null
       THEN /\ result' = <<>>
            /\ pc' = "done"
            /\ UNCHANGED << out, stack, netLog >>
       ELSE /\ WalkTo(Call(Machine, mainSitemapUrl))
            /\ pc' = "walk"
            /\ UNCHANGED result
    /\ UNCHANGED << entry, argv, walks, origin, idx, mainSitemapUrl, retval, exitCode, site >>

\* cli.js:59: the GET of the innermost call is answered.  A transport or HTTP
\* error goes to the catch block.
GetResponse ==
    /\ pc = "walk" /\ stack # <<>> /\ Top.pc = "awaitGet"
    /\ \E d \in Docs :
        /\ Top.url \in DOMAIN site => d = site[Top.url]
        /\ site' = IF Top.url \in DOMAIN site THEN site ELSE (Top.url :> d) @@ site
        /\ IF d.status = "neterr"
           THEN WalkTo(Throw([Machine EXCEPT !.netLog = Settle(netLog, "fail")]))
           ELSE WalkTo(WithTop([Machine EXCEPT !.netLog = Settle(netLog, "ok")],
                               [Top EXCEPT !.pc = "awaitParse"]))
    /\ UNCHANGED << entry, argv, walks, pc, origin, idx, mainSitemapUrl, retval, result,
                    exitCode >>

\* cli.js:60-82: the body is parsed; a body that is no XML goes to the catch
\* block, a document is classified and the call runs on to its next await.
ParseBody ==
    /\ pc = "walk" /\ stack # <<>> /\ Top.pc = "awaitParse"
    /\ IF site[Top.url].status = "badxml"
       THEN WalkTo(Throw(Machine))
       ELSE WalkTo(Classify(Machine))
    /\ UNCHANGED << entry, argv, walks, pc, origin, idx, mainSitemapUrl, retval, result,
                    exitCode, site >>

\* The caller's machine once the innermost call has returned.
Popped == [Machine EXCEPT !.stack = SubSeq(stack, 1, Len(stack) - 1)]

\* NestedReturn without the callee's try/catch: a failure of the nested call
\* surfaces in the caller, whose catch block ends its loop.
NestedReturnPropagates ==
    /\ pc = "walk" /\ Len(stack) > 1 /\ Top.pc = "return"
    /\ LET nestedResult == Returned(Top)
           failed == \/ site[Top.url].status # "ok"
                     \/ MapThrows(site[Top.url].entries)
       IN  IF failed
           THEN WalkTo(WithTop(Popped, Catch(TopOf(Popped))))
           ELSE WalkTo(Resume(WithTop(Popped, Merge(TopOf(Popped), nestedResult))))
    /\ UNCHANGED << entry, argv, walks, pc, origin, idx, mainSitemapUrl, retval, result,
                    exitCode, site >>

\* cli.js:68-82: a nested call returns to the loop that awaits it; the caller
\* appends what it returned and runs on to its next await.
NestedReturn ==
    /\ pc = "walk" /\ Len(stack) > 1 /\ Top.pc = "return"
    /\ LET nestedResult == Returned(Top)
       IN  WalkTo(Resume(WithTop(Popped, Merge(TopOf(Popped), nestedResult))))
    /\ UNCHANGED << entry, argv, walks, pc, origin, idx, mainSitemapUrl, retval, result,
                    exitCode, site >>

\* cli.js:82: the outermost call returns to cliMain or getLinks.
WalkReturn ==
    /\ pc = "walk" /\ Len(stack) = 1 /\ Top.pc = "return"
    /\ retval' = Returned(Top)
    /\ stack' = <<>>
    /\ pc' = "walked"
    /\ UNCHANGED << entry, argv, walks, origin, idx, mainSitemapUrl, result, exitCode, out,
                    netLog, site >>

PrintAll(tag, urls) == [k \in 1..Len(urls) |-> <<tag, urls[k]>>]

\* cli.js:126-149: cliMain once parseSitemap has returned.
cliWalked ==
    /\ entry = "cli" /\ pc = "walked"
    /\ IF argv.argument = "--subs"
       THEN /\ out' = out \o (IF Len(retval.subSitemaps) > 0
                              THEN << <<"count", Len(retval.subSitemaps)>> >>
                                   \o PrintAll("sub", retval.subSitemaps)
                              ELSE << <<"nosubs">> >>)
            /\ exitCode' = 0
       ELSE IF argv.argument = "--urls"
       THEN /\ out' = out \o (IF Len(retval.contentUrls) > 0
                              THEN << <<"count", Len(retval.contentUrls)>> >>
                                   \o PrintAll("url", retval.contentUrls)
                              ELSE << <<"nourls">> >>)
            /\ exitCode' = 0
       ELSE /\ out' = out \o << <<"invalid", argv.argument>> >>
            /\ exitCode' = 1
    /\ pc' = "exited"
    /\ UNCHANGED << entry, argv, walks, origin, idx, mainSitemapUrl, stack, retval, result,
                    netLog, site >>

\* getLinksWalked returning everything the walk found, sub-sitemaps included.
getLinksWalkedReturnsAll ==
    /\ entry = "lib" /\ pc = "walked"
    /\ result' = retval.subSitemaps \o retval.contentUrls
    /\ pc' = "done"
    /\ UNCHANGED << entry, argv, walks, origin, idx, mainSitemapUrl, stack, retval, exitCode,
                    out, netLog, site >>

\* cli.js:96-97: getLinks once parseSitemap has returned.
getLinksWalked ==
    /\ entry = "lib" /\ pc = "walked"
    /\ result' = retval.contentUrls
    /\ pc' = "done"
    /\ UNCHANGED << entry, argv, walks, origin, idx, mainSitemapUrl, stack, retval, exitCode,
                    out, netLog, site >>

Next ==
    \/ cliMain
    \/ getLinks
    \/ findMainSitemap
    \/ HeadRequest
    \/ HeadSucceeds
    \/ HeadFails
    \/ NotFound
    \/ cliLocated
    \/ getLinksLocated
    \/ GetResponse
    \/ ParseBody
    \/ NestedReturn
    \/ WalkReturn
    \/ cliWalked
    \/ getLinksWalked

Spec == Init /\ [][Next]_vars

\* ------------------------------------------------------------- the library

\* The module required by another script (cli.js:155-164): cliMain does not
\* run, the caller calls getLinks.
InitLib == Init /\ entry = "lib"

NextLib ==
    \/ getLinks
    \/ findMainSitemap
    \/ HeadRequest
    \/ HeadSucceeds
    \/ HeadFails
    \/ NotFound
    \/ getLinksLocated
    \/ GetResponse
    \/ ParseBody
    \/ NestedReturn
    \/ WalkReturn
    \/ getLinksWalked

SpecLib == InitLib /\ [][NextLib]_vars

\* ------------------------------------------------------------- fairness

\* getLinks("example.com") against a server that has no /sitemap.xml and has
\* /sitemap_index.xml.
InitFair == InitLib /\ argv.domain = << "example.com" >>

HeadAnswered ==
    \/ idx = 1 /\ HeadFails
    \/ idx = 2 /\ HeadSucceeds

NextFair ==
    \/ getLinks
    \/ findMainSitemap
    \/ HeadRequest
    \/ HeadAnswered
    \/ getLinksLocated
    \/ GetResponse
    \/ ParseBody
    \/ NestedReturn
    \/ WalkReturn
    \/ getLinksWalked

\* Every request is answered in the end, by a response or by an error, and
\* the event loop runs every continuation that is ready.
SpecFair == InitFair /\ [][NextFair]_vars /\ WF_vars(NextFair)

\* ------------------------------------------------------------- two walks

\* Deepest nesting followed in each of two walks made side by side, and the
\* longest list of children in the documents they are served.
MaxPairDepth == 2

MaxPairEntries == 1

\* What a GET can bring to one of two walks made side by side.
PairDocs == { d \in Docs : Len(d.entries) <= MaxPairEntries }

\* A caller that has required the module (cli.js:160-164) calls parseSitemap
\* twice without awaiting the first call: each call has its url and, being an
\* async function, its own chain of suspended frames with their local
\* accumulators; console, network and server are the same for both.
NewWalk(url) == [url |-> url, state |-> "idle", stack |-> <<>>, retval |-> NoResult]

InitPair ==
    /\ entry = "parseSitemap"
    /\ argv = [domain |-> NoArg, argument |-> Null]
    /\ pc = "walk"
    /\ origin = Null
    /\ idx = 1
    /\ mainSitemapUrl = Null
    /\ stack = <<>>
    /\ retval = NoResult
    /\ result = <<>>
    /\ exitCode = -1
    /\ out = <<>>
    /\ netLog = <<>>
    /\ site = <<>>
    /\ \E u1, u2 \in Locs : walks = << NewWalk(u1), NewWalk(u2) >>

\* PairMachine with the accumulators at module level: the innermost frame of
\* a call works on what the innermost frame of the other call holds.
PairMachineShared(id) ==
    LET own == walks[id].stack
        other == walks[3 - id].stack
    IN  [ stack  |-> IF own # <<>> /\ other # <<>>
                     THEN [own EXCEPT ![Len(own)].subSitemaps = other[Len(other)].subSitemaps,
                                      ![Len(own)].contentUrls = other[Len(other)].contentUrls]
                     ELSE own,
          out    |-> out,
          netLog |-> netLog ]

\* cli.js:53-56: the part of the state the call id works on: its own frames
\* (sitemapUrl, subSitemaps, contentUrls are locals of each call), the console
\* and the network.
PairMachine(id) == [stack |-> walks[id].stack, out |-> out, netLog |-> netLog]

\* The request of a call on url is answered: the oldest one to that URL still
\* outstanding.
SettleFor(log, url, outcome) ==
    LET k == CHOOSE j \in 1..Len(log) :
                 /\ log[j].url = url /\ log[j].outcome = "pending"
                 /\ \A h \in 1..(j - 1) : ~(log[h].url = url /\ log[h].outcome = "pending")
    IN  [log EXCEPT ![k].outcome = outcome]

\* The walk id goes on in the machine m, which is no deeper than the model
\* follows.
PairWalkTo(id, m) ==
    \E next \in { m } :
        /\ Len(next.stack) <= MaxPairDepth
        /\ walks' = [walks EXCEPT ![id].stack = next.stack, ![id].state = "walk"]
        /\ out' = next.out
        /\ netLog' = next.netLog

\* cli.js:53-59: the caller calls parseSitemap(url); the call runs to its GET.
PairCall(id) ==
    /\ walks[id].state = "idle"
    /\ PairWalkTo(id, Call(PairMachine(id), walks[id].url))
    /\ UNCHANGED << entry, argv, pc, origin, idx, mainSitemapUrl, stack, retval, result,
                    exitCode, site >>

\* cli.js:59: the GET of the innermost frame of the walk id is answered.
PairGetResponse(id) ==
    /\ walks[id].state = "walk"
    /\ LET m == PairMachine(id)
           f == TopOf(m)
       IN  /\ f.pc = "awaitGet"
           /\ \E d \in PairDocs :
                /\ f.url \in DOMAIN site => d = site[f.url]
                /\ site' = IF f.url \in DOMAIN site THEN site ELSE (f.url :> d) @@ site
                /\ IF d.status = "neterr"
                   THEN PairWalkTo(id, Throw([m EXCEPT !.netLog = SettleFor(netLog, f.url, "fail")]))
                   ELSE PairWalkTo(id, WithTop([m EXCEPT !.netLog = SettleFor(netLog, f.url, "ok")],
                                               [f EXCEPT !.pc = "awaitParse"]))
    /\ UNCHANGED << entry, argv, pc, origin, idx, mainSitemapUrl, stack, retval, result,
                    exitCode >>

\* cli.js:60-82: the body is parsed in the walk id.
PairParseBody(id) ==
    /\ walks[id].state = "walk"
    /\ LET m == PairMachine(id)
           f == TopOf(m)
       IN  /\ f.pc = "awaitParse"
           /\ IF site[f.url].status = "badxml"
              THEN PairWalkTo(id, Throw(m))
              ELSE PairWalkTo(id, Classify(m))
    /\ UNCHANGED << entry, argv, pc, origin, idx, mainSitemapUrl, stack, retval, result,
                    exitCode, site >>

\* cli.js:68-82: a nested call of the walk id returns to the loop awaiting it.
PairNestedReturn(id) ==
    /\ walks[id].state = "walk"
    /\ LET m == PairMachine(id)
           f == TopOf(m)
           popped == [m EXCEPT !.stack = SubSeq(m.stack, 1, Len(m.stack) - 1)]
       IN  /\ Len(m.stack) > 1 /\ f.pc = "return"
           /\ PairWalkTo(id, Resume(WithTop(popped, Merge(TopOf(popped), Returned(f)))))
    /\ UNCHANGED << entry, argv, pc, origin, idx, mainSitemapUrl, stack, retval, result,
                    exitCode, site >>

\* cli.js:82: the outermost call of the walk id returns to the caller.
PairWalkReturn(id) ==
    /\ walks[id].state = "walk"
    /\ LET m == PairMachine(id)
           f == TopOf(m)
       IN  /\ Len(m.stack) = 1 /\ f.pc = "return"
           /\ walks' = [walks EXCEPT ![id].stack = <<>>, ![id].state = "returned",
                                     ![id].retval = Returned(f)]
    /\ UNCHANGED << entry, argv, pc, origin, idx, mainSitemapUrl, stack, retval, result,
                    exitCode, out, netLog, site >>

NextPair ==
    \E id \in 1..2 :
        \/ PairCall(id)
        \/ PairGetResponse(id)
        \/ PairParseBody(id)
        \/ PairNestedReturn(id)
        \/ PairWalkReturn(id)

SpecPair == InitPair /\ [][NextPair]_vars

\* ------------------------------------------------------------- properties

\* findMainSitemap has returned to its caller.
Located == pc \in { "located", "walk", "walked", "done" } \/ (pc = "exited" /\ origin # Null)

\* The candidate paths in the documented priority order.
CandidateOrder ==
    << "/sitemap.xml", "/sitemap_index.xml", "/wp-sitemap.xml",
       "/sitemap-index.xml", "/sitemap.xml.gz" >>

IsHead(k) == netLog[k].method = "HEAD"

IsGet(k) == netLog[k].method = "GET"

NoGet == \A k \in 1..Len(netLog) : ~IsGet(k)

\* C1: the HEAD checks go out in the fixed order /sitemap.xml,
\* /sitemap_index.xml, /wp-sitemap.xml, /sitemap-index.xml, /sitemap.xml.gz:
\* the k-th request of an invocation, when it is a HEAD, is the HEAD of the
\* k-th candidate.  A HEAD is issued only when every request before it was a
\* HEAD that failed, so none follows a success; and findMainSitemap returns
\* origin + path of the first candidate whose HEAD succeeded.
C1_FirstReachableCandidate ==
    /\ \A k \in 1..Len(netLog) :
          IsHead(k) =>
              /\ k <= Len(CandidateOrder)
              /\ netLog[k].url = "https://example.com" \o CandidateOrder[k]
              /\ \A j \in 1..(k - 1) : IsHead(j) /\ netLog[j].outcome = "fail"
              /\ netLog[k].outcome = "ok" =>
                    /\ Located
                    /\ mainSitemapUrl = "https://example.com" \o CandidateOrder[k]
    /\ (Located /\ mainSitemapUrl # Null) =>
          \E k \in 1..Len(netLog) :
              /\ IsHead(k) /\ netLog[k].outcome = "ok"
              /\ netLog[k].url = mainSitemapUrl

\* C1 witness: the third candidate is the first to answer, and it is returned
\* after exactly three HEADs.
C1_Witness ==
    /\ Located
    /\ mainSitemapUrl = "https://example.com/wp-sitemap.xml"
    /\ Len(netLog) = 3
    /\ IsHead(1) /\ IsHead(2) /\ IsHead(3)
    /\ netLog[1].outcome = "fail" /\ netLog[2].outcome = "fail" /\ netLog[3].outcome = "ok"

AllCandidatesFailed ==
    /\ Len(netLog) >= Len(CandidateOrder)
    /\ \A k \in 1..Len(CandidateOrder) : IsHead(k) /\ netLog[k].outcome = "fail"

\* C2: when all five HEAD checks have failed, findMainSitemap returns null
\* without raising an error (a "not found" line is printed, nothing is
\* rejected), and no GET is ever issued afterwards: parseSitemap is never
\* called and getLinks returns the empty list.
C2_NotFoundFetchesNothing ==
    AllCandidatesFailed =>
        /\ Len(netLog) = Len(CandidateOrder)
        /\ stack = <<>>
        /\ mainSitemapUrl = Null
        /\ pc \in { "findLoop", "located", "exited", "done" }
        /\ pc # "findLoop" => \E k \in 1..Len(out) : out[k][1] = "notfound"
        /\ pc = "done" => result = <<>>
        /\ pc = "exited" => exitCode = 1

\* C2 witness: getLinks has returned after five failed HEADs.
C2_Witness == AllCandidatesFailed /\ entry = "lib" /\ pc = "done"

\* ---- the documents of the site, read as the sitemap protocol reads them

Empty == [subSitemaps |-> <<>>, contentUrls |-> <<>>]

\* The document was fetched, is XML and every entry has a <loc>.
WellFormed(d) ==
    /\ d.status = "ok"
    /\ \A k \in 1..Len(d.entries) : "loc" \in DOMAIN d.entries[k]

LocsOf(d) == [k \in 1..Len(d.entries) |-> d.entries[k].loc[1]]

IsUrlset(d) == WellFormed(d) /\ d.root = "urlset"

IsIndex(d) == WellFormed(d) /\ d.root = "sitemapindex" /\ d.entries # <<>>

\* The fetch or the parse of the document fails.
Failing(d) == ~WellFormed(d)

Fetched(u) == u \in DOMAIN site

\* The result the specification gives the walk of url: an index yields its own
\* entries, then what its children yield, child by child in document order; a
\* urlset yields its entries; a failing document yields nothing.
RECURSIVE Expected(_, _)
Expected(url, fuel) ==
    IF fuel = 0 \/ ~Fetched(url) \/ Failing(site[url]) THEN Empty
    ELSE IF site[url].root = "sitemapindex"
    THEN LET own == LocsOf(site[url])
             kids == [k \in 1..Len(own) |-> Expected(own[k], fuel - 1)]
         IN  [ subSitemaps |-> own \o Flatten([k \in 1..Len(own) |-> kids[k].subSitemaps]),
               contentUrls |-> Flatten([k \in 1..Len(own) |-> kids[k].contentUrls]) ]
    ELSE IF site[url].root = "urlset"
    THEN [ subSitemaps |-> <<>>, contentUrls |-> LocsOf(site[url]) ]
    ELSE Empty

\* How often x occurs in the sequence s.
Count(s, x) == Cardinality({ k \in 1..Len(s) : s[k] = x })

\* The innermost parseSitemap call is at its return statement.  Every call,
\* nested or outermost, passes through this state before it returns.
Returning == pc = "walk" /\ stack # <<>> /\ Top.pc = "return"

\* C3: a sitemapindex whose entries all reference urlset documents returns
\* subSitemaps equal to its entries in document order and contentUrls equal to
\* the children's content URLs, child after child in index order, each child's
\* in its own document order.
C3_IndexOfUrlsets ==
    (Returning /\ IsIndex(site[Top.url])) =>
        LET own == LocsOf(site[Top.url])
        IN  (\A k \in 1..Len(own) : Fetched(own[k]) /\ IsUrlset(site[own[k]])) =>
              /\ Top.subSitemaps = own
              /\ Top.contentUrls = Flatten([k \in 1..Len(own) |-> LocsOf(site[own[k]])])

\* C3 witness: the root index lists two different urlsets, A then B, with
\* two URLs each in opposite orders.
C3_Witness ==
    /\ Returning /\ Len(stack) = 1
    /\ Top.subSitemaps = << "https://example.com/sitemap-posts.xml",
                            "https://example.com/sitemap.xml" >>
    /\ Top.contentUrls = << "https://example.com/p1", "https://example.com/p2",
                            "https://example.com/p2", "https://example.com/p1" >>
    /\ IsUrlset(site["https://example.com/sitemap-posts.xml"])
    /\ IsUrlset(site["https://example.com/sitemap.xml"])

\* C4: a urlset with N >= 1 entries returns exactly those N values in document
\* order, no sub-sitemap, and the call has issued no request but its own GET.
C4_UrlsetLeaf ==
    (Returning /\ IsUrlset(site[Top.url]) /\ Len(site[Top.url].entries) >= 1) =>
        /\ Top.contentUrls = LocsOf(site[Top.url])
        /\ Top.subSitemaps = <<>>
        /\ Top.gets = << Top.url >>
        /\ Len(stack) = 1 => Cardinality({ k \in 1..Len(netLog) : IsGet(k) }) = 1

\* C4 witness: the root document is a urlset listing p2 before p1.
C4_Witness ==
    /\ Returning /\ Len(stack) = 1
    /\ IsUrlset(site[Top.url])
    /\ Top.contentUrls = << "https://example.com/p2", "https://example.com/p1" >>

\* What a sibling contributes: nothing when its fetch or parse fails.
Contribution(u) == IF Failing(site[u]) THEN Empty ELSE Expected(u, MaxDepth)

\* C5: when a sub-sitemap of an index fails, every sibling is still walked: a
\* GET goes out for each entry of the index, before or after the failing one,
\* and the result holds every sibling's sub-sitemaps and content URLs.
C5_FailingSiblingIsolated ==
    (Returning /\ IsIndex(site[Top.url])) =>
        LET own == LocsOf(site[Top.url])
        IN  (\E k \in 1..Len(own) : Fetched(own[k]) /\ Failing(site[own[k]])) =>
              /\ \A k \in 1..Len(own) :
                    /\ Fetched(own[k])
                    /\ Count(Tail(Top.gets), own[k]) >= Count(own, own[k])
              /\ Top.subSitemaps =
                    own \o Flatten([k \in 1..Len(own) |-> Contribution(own[k]).subSitemaps])
              /\ Top.contentUrls =
                    Flatten([k \in 1..Len(own) |-> Contribution(own[k]).contentUrls])

\* C5 witness: the first entry of the root index fails and the second, a
\* urlset, still delivers its URLs.
C5_Witness ==
    /\ Returning /\ Len(stack) = 1 /\ IsIndex(site[Top.url])
    /\ LET own == LocsOf(site[Top.url])
       IN  /\ Len(own) = 2 /\ own[1] # own[2]
           /\ Failing(site[own[1]])
           /\ IsUrlset(site[own[2]])
           /\ Len(Top.contentUrls) = 2
           /\ Top.contentUrls = LocsOf(site[own[2]])

\* C5 witness, the other order: the second entry fails after the first has
\* delivered.
C5_WitnessAfter ==
    /\ Returning /\ Len(stack) = 1 /\ IsIndex(site[Top.url])
    /\ LET own == LocsOf(site[Top.url])
       IN  /\ Len(own) = 2 /\ own[1] # own[2]
           /\ Failing(site[own[2]])
           /\ IsUrlset(site[own[1]])
           /\ Top.contentUrls = LocsOf(site[own[1]])
           /\ Len(Top.contentUrls) = 2

Modes == { "--main", "--subs", "--urls" }

UsageError ==
    argv.domain = NoArg \/ argv.argument = Null \/ argv.argument \notin Modes

\* C6: in the command line a usage error (no domain, no mode argument, or a
\* mode argument that is none of --main, --subs, --urls) is reported and ends
\* the process with a non-zero status before any request, HEAD or GET, is
\* issued.
C6_UsageErrorBeforeNetwork ==
    (entry = "cli" /\ UsageError) =>
        /\ netLog = <<>>
        /\ pc = "exited" =>
              /\ exitCode = 1
              /\ \E k \in 1..Len(out) : out[k][1] \in { "usage", "invalid" }

\* The lines of the output that show a sitemap URL, a sub-sitemap URL or a
\* content URL.
UrlLines == { "found", "parsing", "error", "main", "sub", "url" }

\* C7: in the command line, when findMainSitemap has found no candidate, the
\* process ends with a non-zero status in every mode: parseSitemap is never
\* called, no GET goes out and no line showing a URL is printed.
C7_NotFoundExitsNonZero ==
    (entry = "cli" /\ Located /\ mainSitemapUrl = Null) =>
        /\ pc \in { "located", "exited" }
        /\ pc = "exited" => exitCode = 1
        /\ stack = <<>>
        /\ NoGet
        /\ retval = NoResult
        /\ \A k \in 1..Len(out) : out[k][1] \notin UrlLines

\* C7 witness: --urls has exited after five failed HEADs.
C7_Witness ==
    /\ entry = "cli" /\ argv.argument = "--urls"
    /\ AllCandidatesFailed
    /\ pc = "exited" /\ exitCode = 1

\* C8: getLinks returns the contentUrls of the parseSitemap call on the URL
\* findMainSitemap returned, the same elements in the same order and no
\* sub-sitemap URL among them; it returns the empty list when findMainSitemap
\* returned null.
C8_GetLinksIsContentUrls ==
    (entry = "lib" /\ pc = "done") =>
        IF mainSitemapUrl = Null
        THEN result = <<>> /\ NoGet
        ELSE /\ retval.url = mainSitemapUrl
             /\ result = retval.contentUrls

\* C8 witness: getLinks has returned two content URLs of a walk that also found
\* a sub-sitemap.
C8_Witness ==
    /\ entry = "lib" /\ pc = "done"
    /\ mainSitemapUrl # Null
    /\ Len(retval.subSitemaps) >= 1
    /\ Len(result) = 2 /\ result[1] # result[2]

\* C9: both result sequences keep document order, and an index's own entries
\* come before everything collected from its children: at its return a call
\* holds, as sub-sitemaps, its document's entries in document order followed
\* by its children's sub-sitemaps, child after child, and as content URLs its
\* children's content URLs, child after child, or its own in document order.
C9_OwnEntriesFirstInOrder ==
    Returning =>
        /\ Top.subSitemaps = Expected(Top.url, MaxDepth).subSitemaps
        /\ Top.contentUrls = Expected(Top.url, MaxDepth).contentUrls
        /\ IsIndex(site[Top.url]) =>
              SubSeq(Top.subSitemaps, 1, Len(site[Top.url].entries)) = LocsOf(site[Top.url])

\* C9 witness: the root index returns with its own entry in front of the
\* entry collected from its child, itself an index.
C9_Witness ==
    /\ Returning /\ Len(stack) = 1
    /\ Top.subSitemaps = << "https://example.com/sitemap-posts.xml",
                            "https://example.com/sitemap.xml" >>
    /\ LocsOf(site[Top.url]) = << "https://example.com/sitemap-posts.xml" >>
    /\ Len(Top.contentUrls) = 2

\* The sitemaps a fetched document makes parseSitemap walk.
Refs(u) ==
    IF Fetched(u) /\ IsIndex(site[u])
    THEN { LocsOf(site[u])[k] : k \in 1..Len(site[u].entries) }
    ELSE {}

\* The sitemaps reached from those of S by following references.
RECURSIVE ReachableFrom(_)
ReachableFrom(S) ==
    LET more == S \cup UNION { Refs(u) : u \in S }
    IN  IF more = S THEN S ELSE ReachableFrom(more)

\* u references itself, directly or through other indexes.
OnCycle(u) == Refs(u) # {} /\ u \in ReachableFrom(Refs(u))

\* An index that references itself is reachable from u.
ReachesCycle(u) ==
    Refs(u) # {} /\ \E v \in ReachableFrom({u}) : OnCycle(v)

\* C10: a walk that reaches an index referencing itself, directly or
\* indirectly, never returns.  No call whose document lists the URL of a call
\* in progress (its own or an enclosing one's) comes to its return statement,
\* so the calls around it wait forever; and the outermost call never comes to
\* its return statement when a self-referencing index is reachable from its
\* URL.
C10_CycleNeverReturns ==
    /\ (Returning /\ IsIndex(site[Top.url])) =>
          \A k \in 1..Len(site[Top.url].entries) :
              \A n \in 1..Len(stack) : stack[n].url # LocsOf(site[Top.url])[k]
    /\ (Returning /\ Len(stack) = 1) => ~ReachesCycle(Top.url)

\* C10 witness: the root index lists itself, every GET has been answered with
\* it, and the recursion is MaxDepth calls deep, all for the same URL.
C10_Witness ==
    /\ pc = "walk" /\ Len(stack) = MaxDepth
    /\ \A k \in 1..Len(stack) : stack[k].url = mainSitemapUrl
    /\ OnCycle(mainSitemapUrl)
    /\ \A k \in 1..Len(stack) : netLog[Len(netLog) + 1 - k].url = mainSitemapUrl

\* C10 witness, indirect: two indexes list each other.
C10_WitnessIndirect ==
    /\ pc = "walk" /\ Len(stack) = MaxDepth
    /\ stack[2].url # stack[3].url
    /\ stack[2].url = stack[4].url
    /\ OnCycle(stack[2].url)

\* ---- the order of the requests

\* The targets of the GET requests issued so far, in the order of issue.
GetLog ==
    LET heads == Cardinality({ k \in 1..Len(netLog) : IsHead(k) })
    IN  [k \in 1..(Len(netLog) - heads) |-> netLog[heads + k].url]

\* The GETs of a complete depth-first walk of url, in order: the document
\* itself, then the complete walk of each entry of an index, entry after entry.
RECURSIVE ExpectedGets(_, _)
ExpectedGets(url, fuel) ==
    IF fuel = 0 \/ ~Fetched(url) \/ ~IsIndex(site[url]) THEN << url >>
    ELSE LET own == LocsOf(site[url])
         IN  << url >> \o Flatten([k \in 1..Len(own) |-> ExpectedGets(own[k], fuel - 1)])

\* C11: the walk is sequential and depth-first.  At most one request is
\* outstanding, and it is the one issued last; every call but the innermost is
\* suspended on the call it made.  When the GET for the (k+1)-th entry of an
\* index has been issued, the GETs that index's call has collected are its own
\* followed by the complete walks of entries 1..k, nested recursion included;
\* and the GETs issued in all are those of the calls in progress, outermost
\* first, so none belongs to a walk begun out of turn.
C11_SequentialDepthFirst ==
    /\ \A k \in 1..(Len(netLog) - 1) : netLog[k].outcome # "pending"
    /\ pc = "walk" =>
          /\ \A n \in 1..(Len(stack) - 1) : stack[n].pc = "awaitNested"
          /\ (Len(stack) >= 2 /\ Top.pc = "awaitGet") =>
                LET caller == stack[Len(stack) - 1]
                IN  /\ Top.url = caller.sitemapLocations[caller.i]
                    /\ caller.gets =
                          << caller.url >> \o
                          Flatten([k \in 1..(caller.i - 1) |->
                                      ExpectedGets(caller.sitemapLocations[k], MaxDepth)])
                    /\ GetLog = Flatten([n \in 1..Len(stack) |-> stack[n].gets])

\* C11 witness: the GET of the second entry of the root index is outstanding;
\* the first entry, an index itself, has been walked with its own child before.
C11_Witness ==
    /\ pc = "walk" /\ Len(stack) = 2
    /\ stack[1].i = 2
    /\ stack[2].pc = "awaitGet"
    /\ netLog[Len(netLog)].outcome = "pending"
    /\ Len(stack[1].gets) = 3
    /\ IsIndex(site[stack[1].sitemapLocations[1]])

\* ---- failures

\* The call of the n-th frame has its document and has run past its parse.
Parsed(n) == stack[n].pc \in { "awaitNested", "return" }

\* C12: a call whose fetch or parse fails, a failure to read <loc> from an
\* entry included, does not pass the error on: it comes to its return
\* statement like any other call, with subSitemaps and contentUrls both
\* empty, and the error is printed for its URL.  No failure of the walk
\* rejects the caller's promise: what the outermost call returns for a failing
\* document is the two empty lists.
C12_FailureReturnsEmpty ==
    /\ pc = "walk" =>
          \A n \in 1..Len(stack) :
              (Parsed(n) /\ Failing(site[stack[n].url])) =>
                  /\ stack[n].pc = "return"
                  /\ stack[n].subSitemaps = <<>>
                  /\ stack[n].contentUrls = <<>>
                  /\ \E k \in 1..Len(out) : out[k] = << "error", stack[n].url >>
    /\ pc = "rejected" => netLog = <<>>
    /\ (pc \in { "walked", "done", "exited" } /\ retval # NoResult /\ Failing(site[retval.url])) =>
          /\ retval.subSitemaps = <<>>
          /\ retval.contentUrls = <<>>

\* C12 witness: a nested call returns empty-handed from an index whose first
\* entry has a <loc> and whose second has none.
C12_Witness ==
    /\ Returning /\ Len(stack) = 2
    /\ site[Top.url].status = "ok" /\ site[Top.url].root = "sitemapindex"
    /\ Len(site[Top.url].entries) = 2
    /\ "loc" \in DOMAIN site[Top.url].entries[1]
    /\ "loc" \notin DOMAIN site[Top.url].entries[2]
    /\ Top.subSitemaps = <<>> /\ Top.contentUrls = <<>>

\* C12 witness, the fetch: the outermost call has returned the empty lists
\* after its GET failed.
C12_WitnessFetch ==
    /\ pc = "walked"
    /\ site[retval.url].status = "neterr"
    /\ retval.subSitemaps = <<>> /\ retval.contentUrls = <<>>

\* ---- occurrences

\* How often x is listed in the documents the GETs of fetches brought, a
\* document counting once for every time it was fetched; kind is the root of
\* the documents looked at.
RECURSIVE Listed(_, _, _)
Listed(fetches, kind, x) ==
    IF fetches = <<>> THEN 0
    ELSE LET d == site[Head(fetches)]
         IN  (IF WellFormed(d) /\ d.root = kind THEN Count(LocsOf(d), x) ELSE 0)
                 + Listed(Tail(fetches), kind, x)

\* C13: nothing is deduplicated.  At the return of a call, a content URL is in
\* contentUrls once for every time a walked urlset lists it, a sub-sitemap URL
\* is in subSitemaps once for every time a walked index lists it, and it has
\* been walked (a GET of its own) that many times.
C13_NoDeduplication ==
    Returning =>
        /\ \A x \in Pages :
              Count(Top.contentUrls, x) = Listed(Top.gets, "urlset", x)
        /\ \A x \in Locs :
              /\ Count(Top.subSitemaps, x) = Listed(Top.gets, "sitemapindex", x)
              /\ Count(Tail(Top.gets), x) = Count(Top.subSitemaps, x)
        /\ \A k \in 1..Len(Top.contentUrls) : Top.contentUrls[k] \in Pages
        /\ \A k \in 1..Len(Top.subSitemaps) : Top.subSitemaps[k] \in Locs

\* C13 witness: the root index lists the same urlset twice and the urlset
\* lists the same page twice: the page is returned four times, the urlset is
\* recorded twice and fetched twice.
C13_Witness ==
    /\ Returning /\ Len(stack) = 1
    /\ Top.subSitemaps = << "https://example.com/sitemap-posts.xml",
                            "https://example.com/sitemap-posts.xml" >>
    /\ Top.contentUrls = << "https://example.com/p1", "https://example.com/p1",
                            "https://example.com/p1", "https://example.com/p1" >>
    /\ Top.gets = << Top.url, "https://example.com/sitemap-posts.xml",
                     "https://example.com/sitemap-posts.xml" >>

\* ---- retries

\* C14: nothing is tried twice.  No two HEAD requests of an invocation go to
\* the same URL, so each candidate path gets at most one.  The innermost call
\* of parseSitemap, once its GET has failed, is at its return statement having
\* issued that one GET; and when the walk is over, the GETs that went to a URL whose fetch
\* fails are as many as the occurrences of the URL that were walked: one for
\* the root, one for each listing in a walked index.
C14_NoRetries ==
    /\ \A k \in 1..Len(netLog) :
          IsHead(k) => \A j \in 1..(k - 1) : netLog[j].url # netLog[k].url
    /\ (pc = "walk" /\ stack # <<>>) =>
          /\ ~Parsed(Len(stack)) => Top.gets = << Top.url >>
          /\ (Parsed(Len(stack)) /\ site[Top.url].status = "neterr") =>
                /\ Top.pc = "return"
                /\ Top.gets = << Top.url >>
    /\ (Returning /\ Len(stack) = 1) =>
          \A x \in DOMAIN site :
              site[x].status = "neterr" =>
                  Count(GetLog, x) =
                      (IF x = Top.url THEN 1 ELSE 0) + Listed(Top.gets, "sitemapindex", x)

\* C14 witness: two candidates failed their one HEAD each before the third
\* answered; the root index lists twice a sub-sitemap whose fetch fails, and
\* the walk ends with one failed GET for each of the two listings.
C14_Witness ==
    /\ Returning /\ Len(stack) = 1
    /\ Len(netLog) = 6
    /\ IsHead(1) /\ IsHead(2) /\ IsHead(3)
    /\ netLog[1].outcome = "fail" /\ netLog[2].outcome = "fail"
    /\ netLog[5].url = "https://example.com/sitemap-posts.xml"
    /\ netLog[6].url = "https://example.com/sitemap-posts.xml"
    /\ netLog[5].outcome = "fail" /\ netLog[6].outcome = "fail"

\* ---- the origin

\* The domain begins with "http://" or "https://".
SchemeGiven(d) ==
    /\ Len(d) >= 2 /\ d[1] = "http"
    /\ d[2] = "://" \/ (Len(d) >= 3 /\ d[2] = "s" /\ d[3] = "://")

\* findMainSitemap has been called and has run its first two statements.
Normalised ==
    \/ pc \in { "findLoop", "awaitHead", "located", "walk", "walked", "done", "rejected" }
    \/ pc = "exited" /\ netLog # <<>>

\* C15: a domain that does not begin with "http://" or "https://" gets
\* "https://" put in front: findMainSitemap does not fail on it, its origin is
\* "https://" followed by the domain, and every HEAD goes to that origin
\* followed by a candidate path.  A bare host whose name begins with "http" is
\* such a domain.
C15_BareHostGetsHttps ==
    (Normalised /\ argv.domain # NoArg /\ ~SchemeGiven(argv.domain)) =>
        /\ pc # "rejected"
        /\ origin = "https://" \o Join(argv.domain)
        /\ \A k \in 1..Len(netLog) :
              IsHead(k) => netLog[k].url = "https://" \o Join(argv.domain) \o CandidateOrder[k]

\* The same for the bare hosts whose name does not begin with "http".
C15_OtherBareHosts ==
    (Normalised /\ argv.domain # NoArg /\ ~startsWith(argv.domain, "http")) =>
        /\ pc # "rejected"
        /\ origin = "https://" \o Join(argv.domain)
        /\ \A k \in 1..Len(netLog) :
              IsHead(k) => netLog[k].url = "https://" \o Join(argv.domain) \o CandidateOrder[k]

\* ---- two walks side by side

\* C16: calls are independent.  When two parseSitemap calls run with their
\* steps interleaved in any order against the same server, each returns what
\* it returns when run alone: for its own url, the sub-sitemaps and content
\* URLs of the ordered walk, and it has issued the GETs of that walk and no
\* other.  Nothing a call or one of its recursion levels has collected shows
\* up in another.
C16_InterleavedWalksIndependent ==
    \A id \in 1..Len(walks) :
        walks[id].state = "returned" =>
            /\ walks[id].retval.url = walks[id].url
            /\ walks[id].retval.subSitemaps = Expected(walks[id].url, MaxDepth).subSitemaps
            /\ walks[id].retval.contentUrls = Expected(walks[id].url, MaxDepth).contentUrls
            /\ walks[id].retval.gets = ExpectedGets(walks[id].url, MaxDepth)

\* C16 witness: two calls on different urls have both returned, the first an
\* index's sub-sitemap and that sub-sitemap's URL, the second a urlset's URL;
\* the second call's GET went out between the two GETs of the first.
C16_Witness ==
    /\ Len(walks) = 2
    /\ walks[1].state = "returned" /\ walks[2].state = "returned"
    /\ walks[1].url # walks[2].url
    /\ walks[1].retval.subSitemaps = << walks[2].url >>
    /\ Len(walks[1].retval.contentUrls) = 1
    /\ walks[2].retval.subSitemaps = <<>>
    /\ walks[2].retval.contentUrls = walks[1].retval.contentUrls
    /\ Len(netLog) = 3
    /\ netLog[1].url = walks[1].url
    /\ netLog[2].url = walks[2].url
    /\ netLog[3].url = walks[2].url

\* ---- termination

\* An index that references itself, directly or through others, has been
\* fetched.
CycleSeen == \E u \in DOMAIN site : OnCycle(u)

\* C17: on a finite acyclic reference graph, with every request answered in
\* the end, parseSitemap returns.  A walk that has begun leads to the return of
\* the outermost call unless a self-referencing index turns up; and when the
\* outermost call has returned, the GETs issued are, in order, one for each
\* reference path from the root: the root, then for each entry of an index
\* the paths through that entry.
C17_AcyclicWalkReturns ==
    /\ (pc = "walk") ~> (pc = "walked" \/ CycleSeen)
    /\ [](pc = "walked" =>
            /\ ~CycleSeen
            /\ GetLog = ExpectedGets(retval.url, MaxDepth))

\* C17 witness: the walk has returned from a graph three documents deep in
\* which one urlset is referenced along two paths, and it was fetched twice.
C17_Witness ==
    /\ pc = "walked"
    /\ Len(GetLog) = 4
    /\ GetLog[3] = GetLog[4]
    /\ GetLog[2] # GetLog[3]
    /\ IsIndex(site[GetLog[2]])
    /\ IsUrlset(site[GetLog[3]])

\* ---- GETs and recorded sub-sitemaps

\* C18: every recorded sub-sitemap is walked once for each time it is
\* recorded.  When the outermost parseSitemap call has returned, the GETs
\* issued are one more than the sub-sitemaps returned: the first went to the
\* root, and the others are the returned sub-sitemaps in some order, each URL
\* as often among the GETs as in the list.
C18_OneGetPerSubSitemap ==
    pc = "walked" =>
        /\ Len(GetLog) = 1 + Len(retval.subSitemaps)
        /\ GetLog[1] = retval.url
        /\ \A k \in 2..Len(GetLog) :
              Count(Tail(GetLog), GetLog[k]) = Count(retval.subSitemaps, GetLog[k])

\* C18 witness: the root index lists two sub-sitemaps, the first of them an
\* index listing the second: three sub-sitemaps are returned, four GETs were
\* issued.
C18_Witness ==
    /\ pc = "walked"
    /\ Len(retval.subSitemaps) = 3
    /\ Len(GetLog) = 4
    /\ retval.subSitemaps[1] # retval.subSitemaps[2]
    /\ retval.subSitemaps[2] = retval.subSitemaps[3]
    /\ Len(site[retval.url].entries) = 2

\* ---- --main

\* C19: in the mode --main, once findMainSitemap has found a sitemap, its URL
\* is printed and the process ends: parseSitemap is never called, so no GET
\* is ever issued and nothing is fetched or parsed; the only requests are the
\* HEADs of findMainSitemap.
C19_MainModeIssuesNoGet ==
    (entry = "cli" /\ argv.argument = "--main") =>
        /\ NoGet
        /\ stack = <<>> /\ site = <<>> /\ retval = NoResult
        /\ pc \notin { "walk", "walked" }
        /\ \A k \in 1..Len(out) : out[k][1] # "parsing"
        /\ (Located /\ mainSitemapUrl # Null /\ pc = "exited") =>
              /\ exitCode = 0
              /\ out[Len(out)] = << "main", mainSitemapUrl >>

\* C19 witness: --main has printed the second candidate's URL and exited
\* after two HEADs.
C19_Witness ==
    /\ entry = "cli" /\ argv.argument = "--main"
    /\ pc = "exited" /\ exitCode = 0
    /\ mainSitemapUrl = "https://example.com/sitemap_index.xml"
    /\ out[Len(out)] = << "main", mainSitemapUrl >>
    /\ Len(netLog) = 2 /\ IsHead(1) /\ IsHead(2)

====
